---- MODULE Spec2Model ----
(***************************************************************************)
(* A model of restmon's RestmonClient (src/restmon/client.py): the         *)
(* constructor's normalisation of the base URI and the polling cycle of    *)
(* run(), with the session's GET, the wall clock and the logger as the     *)
(* environment.                                                            *)
(*                                                                         *)
(* URIs and endpoint paths are sequences of one-character strings, so that *)
(* startswith / endswith / slicing are computed as the code computes them. *)
(* A log line is the sequence of its key=value tokens, in the order of the *)
(* format string that produces it.                                         *)
(***************************************************************************)
EXTENDS Integers, Sequences, FiniteSets, TLC

\* ------------------------------------------------------------------ bounds
MaxEndpoints == 2
MaxTime == 1
MaxPathLen == 2
MaxBaseLen == 2

\* ---------------------------------------------------------- the input sets
PathChars == {"/", "a"}
BaseChars == {"h", "/"}

\* All sequences over S of length lo..hi.
SeqsOf(S, lo, hi) == UNION {[1..n -> S] : n \in lo..hi}

\* The endpoint paths and base URIs of the path-normalisation specification.
AllPaths == SeqsOf(PathChars, 0, MaxPathLen)
AllBases == {<<"h">> \o s : s \in SeqsOf(BaseChars, 0, MaxBaseLen)}

\* The endpoint paths and base URIs of the polling-cycle specification.
CyclePaths == {<<"a">>, <<"/", "a">>, <<"/", "/">>}
CycleBases == {<<"h">>, <<"h", "/">>}

Environments == {"prod", "test"}

\* What time() can return.  time.time() is the wall clock: two successive
\* readings are not ordered (the clock can be set back between them).
Clock == 0..MaxTime

\* What the session's GET can do: return a response (any status, any body)
\* or raise.  The bodies are one that is not JSON and one JSON object; a
\* body that is JSON but no object is left out (what flatten does with it
\* is not decided in this file).
Statuses == {200, 500}
Bodies == {"OK", "{\"a\":{\"b\":1},\"c\":[2,3]}"}
RequestExceptions == {"ConnectionError", "ReadTimeout"}

NoReply == [kind |-> "none", status |-> 0, text |-> "", exc |-> ""]
Response(status, text) ==
    [kind |-> "response", status |-> status, text |-> text, exc |-> ""]
Raised(e) == [kind |-> "raise", status |-> 0, text |-> "", exc |-> e]
Replies ==
    {Response(s, t) : s \in Statuses, t \in Bodies}
        \cup {Raised(e) : e \in RequestExceptions}

\* ----------------------------------------------------------------- strings
startswith(s, c) == Len(s) > 0 /\ s[1] = c
endswith(s, c) == Len(s) > 0 /\ s[Len(s)] = c

\* __init__: if base_uri.endswith('/'): base_uri = base_uri[:-1]
NormalizeBaseUri(raw) ==
    IF endswith(raw, "/") THEN SubSeq(raw, 1, Len(raw) - 1) ELSE raw

\* A plausible slip: the separator test dropped.
NormalizeEndpointKeep(endpoint) == endpoint

\* run: if endpoint.startswith('/'): endpoint = endpoint[1:]
NormalizeEndpoint(endpoint) ==
    IF startswith(endpoint, "/") THEN SubSeq(endpoint, 2, Len(endpoint))
    ELSE endpoint

\* '{base}/{endpoint}'.format(...)
Url(base, endpoint) == base \o <<"/">> \o endpoint

\* -------------------------------------------------------------------- JSON
Num(n) == [t |-> "num", n |-> n, items |-> <<>>]
Obj(items) == [t |-> "obj", n |-> 0, items |-> items]
Arr(items) == [t |-> "arr", n |-> 0, items |-> items]

\* r.json() raises ValueError on a body that is not JSON.
JsonValid(text) == text # "OK"

\* r.json() on the bodies of the model.
JsonLoads(text) ==
    CASE text = "{\"a\":{\"b\":1},\"c\":[2,3]}" ->
            Obj(<< <<"a", Obj(<< <<"b", Num(1)>> >>)>>,
                   <<"c", Arr(<<Num(2), Num(3)>>)>> >>)

RECURSIVE Dumps(_)
RECURSIVE DumpsItems(_, _, _)
\* json.dumps(j): items joined by ", ", keys and values by ": ".
DumpsItems(j, k, acc) ==
    IF k > Len(j.items) THEN acc
    ELSE LET item == IF j.t = "obj"
                     THEN "\"" \o j.items[k][1] \o "\": " \o Dumps(j.items[k][2])
                     ELSE Dumps(j.items[k])
             sep == IF k = 1 THEN "" ELSE ", "
         IN DumpsItems(j, k + 1, acc \o sep \o item)

Dumps(j) ==
    CASE j.t = "num" -> ToString(j.n)
      [] j.t = "obj" -> "{" \o DumpsItems(j, 1, "") \o "}"
      [] j.t = "arr" -> "[" \o DumpsItems(j, 1, "") \o "]"

RECURSIVE Flatten(_, _)
RECURSIVE FlattenItems(_, _, _)
\* flatten(j): one (key, scalar) pair per leaf, in traversal order; the key
\* is the path to the leaf, its segments (object keys, list indices from 0)
\* joined by the separator.
FlattenItems(j, prefix, k) ==
    IF k > Len(j.items) THEN <<>>
    ELSE LET seg == IF j.t = "obj" THEN j.items[k][1] ELSE ToString(k - 1)
             val == IF j.t = "obj" THEN j.items[k][2] ELSE j.items[k]
             key == IF prefix = "" THEN seg ELSE prefix \o "_" \o seg
         IN Flatten(val, key) \o FlattenItems(j, prefix, k + 1)

Flatten(j, prefix) ==
    IF j.t = "num" THEN << <<prefix, j.n>> >>
    ELSE FlattenItems(j, prefix, 1)

\* --------------------------------------------------------------- log lines
ConfiguredLine(env, eps) ==
    << <<"application", "restmon">>, <<"environment", env>>,
       <<"msg", <<"endpoints configuredendpoints=", eps>> >> >>

StartLine(env) ==
    << <<"application", "restmon">>, <<"environment", env>>,
       <<"msg", "start MonitorClient.run">> >>

QueryLine(env, ep) ==
    << <<"application", "restmon">>, <<"environment", env>>,
       <<"endpoint", ep>>, <<"msg", "querying endpoint">> >>

EndLine(env) ==
    << <<"application", "restmon">>, <<"environment", env>>,
       <<"msg", "end MonitorClient.run">> >>

\* The line of the try body: the fixed tokens, then one token per
\* flattened key.
DecodedLine(env, start, end, rtt, j, endpoint) ==
    << <<"environment", env>>, <<"application", "restmon">>,
       <<"msg", "received response">>, <<"time_unit", "sec">>,
       <<"start_time", start>>, <<"end_time", end>>, <<"rtt", rtt>>,
       <<"response", Dumps(j)>>, <<"endpoint", endpoint>> >>
        \o Flatten(j, "")

\* A plausible slip: the fallback logs an empty response.
RawTextLineEmpty(env, start, end, rtt, text, endpoint) ==
    << <<"environment", env>>, <<"msg", "received response">>,
       <<"application", "restmon">>, <<"time_unit", "sec">>,
       <<"start_time", start>>, <<"endpoint", endpoint>>,
       <<"end_time", end>>, <<"rtt", rtt>>, <<"response", "">> >>

\* The line of the inner except: the body as received, no flattened keys.
RawTextLine(env, start, end, rtt, text, endpoint) ==
    << <<"environment", env>>, <<"msg", "received response">>,
       <<"application", "restmon">>, <<"time_unit", "sec">>,
       <<"start_time", start>>, <<"endpoint", endpoint>>,
       <<"end_time", end>>, <<"rtt", rtt>>, <<"response", text>> >>

\* The line of the outer except.
ErrorLine(env, e, start, end, rtt) ==
    << <<"application", "restmon">>, <<"environment", env>>,
       <<"msg", "failed to query endpoint with error">>, <<"error", e>>,
       <<"start_time", start>>, <<"end_time", end>>, <<"rtt", rtt>>,
       <<"time_unit", "sec">> >>

\* rtt = end - start
Rtt(start, end) == end - start

\* ------------------------------------------------------- exception handling
\* The classes that derive from Exception, which is what both handlers
\* name.  ValueError is what r.json() raises on a body that is not JSON.
ExceptionSubclasses == {"ConnectionError", "ReadTimeout", "ValueError"}

\* A plausible slip: the fallback handler names one specific class.
InnerExceptKeyError(e) == e = "KeyError"

\* except Exception: (around r.json(), dumps, flatten and logger.info)
InnerExcept(e) == e \in ExceptionSubclasses

\* A plausible slip: the failure handler names one specific class.
OuterExceptValueError(e) == e = "ValueError"

\* except Exception as e: (around the request and the inner try)
OuterExcept(e) == e \in ExceptionSubclasses

\* ------------------------------------------------------------------- state
VARIABLES
    base_uri,       \* self.base_uri
    environment,    \* self.environment
    endpoints,      \* self.endpoints
    pc,             \* "idle", "loop" (inside run), "returned", "raised"
    i,              \* position of run's for loop in self.endpoints
    events,         \* the calls of the current run on the logger and on
                    \* the session, in order
    record,         \* the latest line handed to the logger, and its level
    reply           \* what the latest session GET of the current run did

vars == <<base_uri, environment, endpoints, pc, i, events, record, reply>>

LogEv(level, msg, k) ==
    [ev |-> "log", level |-> level, msg |-> msg, ep |-> k, url |-> <<>>]
GetEv(k, url) ==
    [ev |-> "get", level |-> "none", msg |-> "", ep |-> k, url |-> url]

\* The state after RestmonClient(base_uri, endpoints, environment=env).
Construct(raw, eps, env) ==
    /\ base_uri = NormalizeBaseUri(raw)
    /\ endpoints = eps
    /\ environment = env
    /\ pc = "idle"
    /\ i = 0
    /\ events = <<>>
    /\ record = [level |-> "debug", line |-> ConfiguredLine(env, eps)]
    /\ reply = NoReply

\* A plausible slip: the list walked from its end.
EndpointReversed(eps, k) == eps[Len(eps) - k + 1]

\* for endpoint in self.endpoints: the k-th endpoint of the loop.
Endpoint(eps, k) == eps[k]

\* A plausible slip: the handler asks again before it logs.
OnFailureRetry(k, url) ==
    <<GetEv(k, url), LogEv("error", "failed to query endpoint with error", k)>>

\* The calls of the outer handler: one logger.error, no request.
OnFailure(k, url) ==
    <<LogEv("error", "failed to query endpoint with error", k)>>

\* One pass of the loop body for the k-th endpoint ep: start is the reading
\* of time() before the request, got is what the GET does, end is the
\* reading of time() that follows it (after the response, or in the outer
\* handler).  The result is the calls made, the last line logged, and where
\* control goes: back to the loop, or out of run with the exception.
PollEndpoint(k, env, base, ep, start, end, got) ==
    LET endpoint == NormalizeEndpoint(ep)
        url == Url(base, endpoint)
        rtt == Rtt(start, end)
        asked == <<LogEv("debug", "querying endpoint", k), GetEv(k, url)>>
        info == <<LogEv("info", "received response", k)>>
        failed(e) ==
            IF OuterExcept(e)
            THEN [calls |-> asked \o OnFailure(k, url),
                  record |-> [level |-> "error",
                              line |-> ErrorLine(env, e, start, end, rtt)],
                  pc |-> "loop"]
            ELSE [calls |-> asked,
                  record |-> [level |-> "debug", line |-> QueryLine(env, ep)],
                  pc |-> "raised"]
    IN  IF got.kind = "raise" THEN failed(got.exc)
        ELSE IF JsonValid(got.text)
        THEN [calls |-> asked \o info,
              record |-> [level |-> "info",
                          line |-> DecodedLine(env, start, end, rtt,
                                               JsonLoads(got.text), endpoint)],
              pc |-> "loop"]
        ELSE IF InnerExcept("ValueError")
        THEN [calls |-> asked \o info,
              record |-> [level |-> "info",
                          line |-> RawTextLine(env, start, end, rtt,
                                               got.text, endpoint)],
              pc |-> "loop"]
        ELSE failed("ValueError")

\* ----------------------------------------------------------------- actions
\* run() is called: the cycle-start debug record, then the loop.
Run ==
    /\ pc \in {"idle", "returned"}
    /\ pc' = "loop"
    /\ i' = 1
    /\ events' = <<LogEv("debug", "start MonitorClient.run", 0)>>
    /\ record' = [level |-> "debug", line |-> StartLine(environment)]
    /\ reply' = NoReply
    /\ UNCHANGED <<base_uri, environment, endpoints>>

\* The loop body for the next endpoint.
Poll ==
    /\ pc = "loop"
    /\ i <= Len(endpoints)
    /\ \E start \in Clock, end \in Clock, got \in Replies :
        LET res == PollEndpoint(i, environment, base_uri,
                                Endpoint(endpoints, i), start, end, got)
        IN  /\ events' = events \o res.calls
            /\ record' = res.record
            /\ pc' = res.pc
            /\ i' = IF res.pc = "loop" THEN i + 1 ELSE i
            /\ reply' = got
    /\ UNCHANGED <<base_uri, environment, endpoints>>

\* The loop is exhausted: the cycle-end debug record, and run returns.
RunEnd ==
    /\ pc = "loop"
    /\ i > Len(endpoints)
    /\ pc' = "returned"
    /\ events' = events \o <<LogEv("debug", "end MonitorClient.run", 0)>>
    /\ record' = [level |-> "debug", line |-> EndLine(environment)]
    /\ UNCHANGED <<base_uri, environment, endpoints, i, reply>>

Next == Run \/ Poll \/ RunEnd

\* The polling cycle: a few endpoints, every order and duplicate of them.
Init ==
    \E raw \in CycleBases, env \in Environments,
       eps \in SeqsOf(CyclePaths, 0, MaxEndpoints) :
        Construct(raw, eps, env)

Spec == Init /\ [][Next]_vars

\* Path normalisation: one endpoint, every base URI and path of the bounds.
InitPaths ==
    \E raw \in AllBases, p \in AllPaths : Construct(raw, <<p>>, "prod")

SpecPaths == InitPaths /\ [][Next]_vars

\* ------------------------------------------------- reading lines and events
Keys(line) == {line[j][1] : j \in DOMAIN line}
Field(line, key) ==
    line[CHOOSE j \in DOMAIN line : line[j][1] = key][2]

IsTerminal(e) == e.ev = "log" /\ e.level \in {"info", "error"}
IsGet(e) == e.ev = "get"
Terminals == SelectSeq(events, IsTerminal)
Gets == SelectSeq(events, IsGet)

\* The record of the state is the terminal record of the endpoint polled
\* last (endpoint i - 1 of the configuration).
JustPolled == pc = "loop" /\ reply.kind # "none"

\* The part of a requested URL that follows the base URI and one separator.
PathOf(url) == SubSeq(url, Len(base_uri) + 2, Len(url))

RequiredFields ==
    {"application", "environment", "msg", "endpoint", "start_time",
     "end_time", "rtt", "time_unit"}

\* ------------------------------------------------------------------ claims

\* C1: one call of run emits exactly N terminal records (info or error) for
\* a configuration of N endpoints, whatever each endpoint's outcome: the
\* k-th terminal record is the one of the k-th configured endpoint, follows
\* the request to that endpoint's URL, and (on the info paths) names that
\* endpoint.
C1_OneTerminalRecordPerEndpointInOrder ==
    /\ pc = "returned" => Len(Terminals) = Len(endpoints)
    /\ pc = "loop" => Len(Terminals) = i - 1
    /\ Len(Gets) = Len(Terminals)
    /\ \A k \in DOMAIN Terminals :
        /\ Terminals[k].ep = k
        /\ Gets[k].ep = k
        /\ Gets[k].url = Url(base_uri, NormalizeEndpoint(endpoints[k]))
    /\ (JustPolled /\ record.level = "info") =>
            Field(record.line, "endpoint") = NormalizeEndpoint(endpoints[i - 1])

\* C1 witness: a run over a duplicated endpoint returned, the first poll
\* having failed and the second succeeded.
C1_Witness ==
    /\ pc = "returned"
    /\ Len(endpoints) = 2
    /\ endpoints[1] = endpoints[2]
    /\ Len(Terminals) = 2
    /\ Terminals[1].level = "error"
    /\ Terminals[2].level = "info"

\* C2: no exception leaves run: from every point of the loop run can go on,
\* each step either moves to the next endpoint or, the endpoints exhausted,
\* returns after the end-of-cycle record; and when run has returned every
\* configured endpoint has been requested and has its terminal record,
\* however many of them failed.
C2_RunAlwaysCompletes ==
    /\ [](pc # "raised")
    /\ [](pc = "loop" =>
            /\ ENABLED (Poll \/ RunEnd)
            /\ i \in 1..(Len(endpoints) + 1)
            /\ Len(Gets) = i - 1)
    /\ [][pc = "loop" =>
            \/ pc' = "loop" /\ i' = i + 1
            \/ pc' = "returned" /\ i = Len(endpoints) + 1]_vars
    /\ [](pc = "returned" =>
            /\ Len(Gets) = Len(endpoints)
            /\ Len(Terminals) = Len(endpoints)
            /\ events[Len(events)].msg = "end MonitorClient.run")

\* C2 witness: run returned after every one of two endpoints failed, with
\* two error-level records.
C2_Witness ==
    /\ pc = "returned"
    /\ Len(endpoints) = 2
    /\ Len(Terminals) = 2
    /\ \A k \in DOMAIN Terminals : Terminals[k].level = "error"

\* C3: every terminal record (info or error) carries the fields
\* application, environment, msg, endpoint, start_time, end_time, rtt and
\* time_unit.
C3_TerminalRecordHasRequiredFields ==
    JustPolled => RequiredFields \subseteq Keys(record.line)

\* C4: in every terminal record rtt is end_time minus start_time, and it is
\* not negative.
C4_RttIsEndMinusStartAndNotNegative ==
    JustPolled =>
        /\ Field(record.line, "rtt") =
                Field(record.line, "end_time") - Field(record.line, "start_time")
        /\ Field(record.line, "rtt") >= 0

\* C5 as stated: an endpoint without a leading separator and the same
\* endpoint with one added are requested at the same URL, and normalising
\* the path that was requested (an already normalised path) changes nothing.
C5_NormalizationIdempotent ==
    \A k \in DOMAIN Gets :
        LET p == endpoints[Gets[k].ep]
            used == PathOf(Gets[k].url)
        IN  /\ ~startswith(p, "/") =>
                    Gets[k].url = Url(base_uri, NormalizeEndpoint(<<"/">> \o p))
            /\ NormalizeEndpoint(used) = used

\* C5 as amended: "foo" and "/foo" (foo without a leading separator) are
\* requested at the same URL, base + "/" + "foo"; normalisation removes
\* exactly one leading separator; and normalising the requested path again
\* changes nothing when the endpoint had at most one leading separator.
C5_NormalizationStripsOneSeparator ==
    \A k \in DOMAIN Gets :
        LET p == endpoints[Gets[k].ep]
            used == PathOf(Gets[k].url)
        IN  /\ Gets[k].url = base_uri \o <<"/">> \o used
            /\ ~startswith(p, "/") =>
                    /\ used = p
                    /\ Gets[k].url = Url(base_uri, NormalizeEndpoint(<<"/">> \o p))
            /\ startswith(p, "/") => <<"/">> \o used = p
            /\ ~(startswith(p, "/") /\ startswith(used, "/")) =>
                    NormalizeEndpoint(used) = used

\* C5 witness: the endpoint "/a" was requested at base + "/a".
C5_Witness ==
    /\ Len(Gets) = 1
    /\ endpoints[1] = <<"/", "a">>
    /\ Gets[1].url = base_uri \o <<"/", "a">>

\* C6: the stored base URI never ends with the separator, at construction
\* and across every run.
C6_BaseUriHasNoTrailingSeparator == ~endswith(base_uri, "/")

\* C7: a response whose body is not JSON gives an info-level record whose
\* response field is the body as received and which has no flattened key;
\* nothing is logged as an error and the loop goes on with the next
\* endpoint.
C7_NonJsonBodyIsLoggedAsRawText ==
    (reply.kind = "response" /\ ~JsonValid(reply.text)) =>
        /\ pc \in {"loop", "returned"}
        /\ pc = "loop" =>
            /\ record.level = "info"
            /\ Field(record.line, "response") = reply.text
            /\ Keys(record.line) = RequiredFields \cup {"response"}
            /\ Len(record.line) = Cardinality(RequiredFields) + 1
            /\ events[Len(events)] = LogEv("info", "received response", i - 1)
            /\ \A k \in DOMAIN Terminals :
                    Gets[k].ep = Terminals[k].ep /\
                    (k = Len(Terminals) => Terminals[k].level = "info")

\* C7 witness: the body "OK" came back for the first of two endpoints, was
\* logged at info level, and the second endpoint is still to be polled.
C7_Witness ==
    /\ pc = "loop"
    /\ reply.kind = "response"
    /\ reply.text = "OK"
    /\ record.level = "info"
    /\ Field(record.line, "response") = "OK"
    /\ i = 2
    /\ Len(endpoints) = 2

\* C9: within a run the endpoints are polled one at a time: one GET per
\* endpoint polled and none for the others, each terminal record after its
\* endpoint's GET, the GET of endpoint k + 1 after the terminal record of
\* endpoint k, the cycle-start record first and the cycle-end record last.
C9_EndpointsPolledOneAtATime ==
    LET n == Len(events)
        At(j, k) == events[j].ep = k
    IN  pc # "idle" =>
        /\ n >= 1
        /\ events[1] = LogEv("debug", "start MonitorClient.run", 0)
        /\ \A j \in 2..n : events[j].msg # "start MonitorClient.run"
        /\ \A j \in 1..n : events[j].msg = "end MonitorClient.run" =>
                j = n /\ pc = "returned"
        /\ pc = "returned" => events[n] = LogEv("debug", "end MonitorClient.run", 0)
        /\ \A k \in 1..Len(endpoints) :
                Cardinality({j \in 1..n : IsGet(events[j]) /\ At(j, k)})
                    = IF k < i THEN 1 ELSE 0
        /\ \A j \in 1..n : IsTerminal(events[j]) =>
                \E g \in 1..(j - 1) :
                    IsGet(events[g]) /\ events[g].ep = events[j].ep
        /\ \A j \in 1..n : (IsGet(events[j]) /\ events[j].ep > 1) =>
                \E t \in 1..(j - 1) :
                    IsTerminal(events[t]) /\ events[t].ep = events[j].ep - 1

\* C9 witness: a run over two endpoints returned, the first having failed.
C9_Witness ==
    /\ pc = "returned"
    /\ Len(Gets) = 2
    /\ Terminals[1].level = "error"
    /\ Terminals[2].level = "info"
    /\ Len(events) = 8

\* C10: the level of the terminal record follows the outcome of the GET:
\* a response, whatever its status, gives an info-level "received response"
\* record, and the record is error-level exactly when the GET raised.
C10_LevelFollowsOutcome ==
    /\ (reply.kind # "none") => pc \in {"loop", "returned"}
    /\ JustPolled =>
        /\ reply.kind = "response" =>
                /\ record.level = "info"
                /\ Field(record.line, "msg") = "received response"
        /\ record.level = "error" <=> reply.kind = "raise"
        /\ events[Len(events)].level = record.level

\* C10 witness: a response with status 500 and a body that is not JSON was
\* logged at info level.
C10_Witness ==
    /\ JustPolled
    /\ reply.kind = "response"
    /\ reply.status = 500
    /\ reply.text = "OK"
    /\ record.level = "info"
====
